---- MODULE Spec2Model ----
(***************************************************************************)
(* Rolling, coupled sampling + spreading simulation of timeline_app.py.    *)
(*                                                                         *)
(* Areas and rates are exact multiples of an area unit.  A configuration   *)
(* carries its unit: "ha" (one hectare; the tolerance 1e-9 ha is then      *)
(* smaller than one unit, so x >= T - 1e-9 is x >= T) or "nha" (1e-9 ha;   *)
(* the tolerance is then exactly one unit, so x >= T - 1e-9 is             *)
(* x >= T - 1).  Dates are day ordinals.                                   *)
(***************************************************************************)
EXTENDS Integers, Sequences, FiniteSets

VARIABLES cfg, d, sampled_cum, spread_cum, rows, pc,
          sampling_finish_date, spreading_finish_date, final_backlog,
          run, prev_rows

\* run counts the executions of the script; prev_rows records the rows of
\* the execution before the current one
vars == <<cfg, d, sampled_cum, spread_cum, rows, pc,
          sampling_finish_date, spreading_finish_date, final_backlog,
          run, prev_rows>>

\* ---------------------------------------------------------------- bounds
MaxArea == 6
MaxRate == 3
MaxLag == 2
MaxExtraDays == 0
MaxStartOffset == 0
MaxRuns == 2

\* ------------------------------------------------------ program constants
MinSimDays == 30
DaysPerWeek == 7
WorkdayChoices == {5, 6, 7}
None == -1

\* ------------------------------------------------------------ arithmetic
Min(a, b) == IF a <= b THEN a ELSE b

Max(a, b) == IF a >= b THEN a ELSE b

Min3(a, b, c) == Min(a, Min(b, c))

\* ------------------------------------------------------------ inputs
\* points_per_ha is 0 when total_area_ha is 0, and the sampling rate is then 0
DerivedSamplingRate(total, r) == IF total > 0 THEN r ELSE 0

MkConfig(total, sr, pr, w, lag, start, maxd, unit) ==
    [total_area_ha |-> total,
     effective_sampling_ha_per_workday |-> DerivedSamplingRate(total, sr),
     spreading_ha_per_workday |-> pr,
     workdays_per_week |-> w,
     spreading_lag_days |-> lag,
     start_date |-> start,
     max_sim_days |-> maxd,
     unit |-> unit]

\* short lags, and a lag that lets spreading start on the last day of the
\* shortest horizon
LagChoices == (0 .. MaxLag) \cup {MinSimDays - 1}

SimDayChoices == MinSimDays .. (MinSimDays + MaxExtraDays)

\* day ordinals of the start date (ordinals start at 1)
StartDates == 1 .. (1 + MaxStartOffset)

SmallConfigs ==
    { MkConfig(t, sr, pr, w, lag, s, m, u) :
        t \in 0 .. MaxArea, sr \in 0 .. MaxRate, pr \in 0 .. MaxRate,
        w \in WorkdayChoices, lag \in LagChoices, s \in StartDates,
        m \in SimDayChoices, u \in {"ha", "nha"} }

\* the configurations of the scenarios: 100 ha, rates of 5, 10 or 20 ha/workday
ScenarioConfigs ==
    { MkConfig(100, sr, pr, w, lag, s, m, "ha") :
        sr \in {10, 20}, pr \in {5, 10}, w \in WorkdayChoices,
        lag \in {0, 3}, s \in StartDates, m \in SimDayChoices }

Configs == SmallConfigs \cup ScenarioConfigs

\* ------------------------------------------------------------ simulation
\* the tolerance 1e-9 ha in whole units of the configuration
Tolerance(c) == IF c.unit = "nha" THEN 1 ELSE 0

\* mutant: the day after the workweek counts as a workday
is_workday_OffByOne(day_index, workdays_per_week_) ==
    (day_index % DaysPerWeek) <= workdays_per_week_

\* mutant: every day is a workday
is_workday_Always(day_index, workdays_per_week_) == day_index >= 0

is_workday(day_index, workdays_per_week_) ==
    (day_index % DaysPerWeek) < workdays_per_week_

\* mutant: the last sampling day is not capped by the remaining area
SampledToday_NoCap(c, workday, sc) ==
    IF workday /\ sc < c.total_area_ha
    THEN c.effective_sampling_ha_per_workday
    ELSE 0

SampledToday(c, workday, sc) ==
    IF workday /\ sc < c.total_area_ha
    THEN Min(c.effective_sampling_ha_per_workday, c.total_area_ha - sc)
    ELSE 0

\* mutant: the lag is ignored
SpreadEligible_NoLag(c, workday, day) == workday

\* mutant: spreading starts one day early
SpreadEligible_Early(c, workday, day) == workday /\ day >= c.spreading_lag_days - 1

\* mutant: spreading starts one day late
SpreadEligible_Late(c, workday, day) == workday /\ day > c.spreading_lag_days

SpreadEligible(c, workday, day) == workday /\ day >= c.spreading_lag_days

ReadyBacklog(sc, sp) == Max(sc - sp, 0)

\* mutant: spreading is not capped by the ready backlog
SpreadAmount_NoBacklogCap(c, ready_backlog, sp) ==
    IF sp < c.total_area_ha
    THEN Min(c.spreading_ha_per_workday, c.total_area_ha - sp)
    ELSE 0

SpreadAmount(c, ready_backlog, sp) ==
    IF ready_backlog > 0 /\ sp < c.total_area_ha
    THEN Min3(c.spreading_ha_per_workday, ready_backlog, c.total_area_ha - sp)
    ELSE 0

\* sc is sampled_cum after this day's sampling, sp is spread_cum before the day
SpreadToday(c, workday, day, sc, sp) ==
    IF SpreadEligible(c, workday, day)
    THEN SpreadAmount(c, ReadyBacklog(sc, sp), sp)
    ELSE 0

Backlog(sc, sp) == Max(sc - sp, 0)

CurrentDate(c, day) == c.start_date + day

\* mutant: spreading sees only the area sampled up to the previous day
DayRecord_PrevDay(c, day, sc, sp) ==
    LET workday == is_workday(day, c.workdays_per_week)
        sampled_today == SampledToday(c, workday, sc)
        sc2 == sc + sampled_today
        spread_today == SpreadToday(c, workday, day, sc, sp)
        sp2 == sp + spread_today
    IN  [day |-> day,
         date |-> CurrentDate(c, day),
         workday |-> workday,
         sampled_today_ha |-> sampled_today,
         spread_today_ha |-> spread_today,
         sampled_cum_ha |-> sc2,
         spread_cum_ha |-> sp2,
         backlog_ha |-> Backlog(sc2, sp2)]

\* mutant: the cumulative totals are overwritten with the day's amounts
DayRecord_NoAccumulate(c, day, sc, sp) ==
    LET workday == is_workday(day, c.workdays_per_week)
        sampled_today == SampledToday(c, workday, sc)
        sc2 == sampled_today
        spread_today == SpreadToday(c, workday, day, sc2, sp)
        sp2 == spread_today
    IN  [day |-> day,
         date |-> CurrentDate(c, day),
         workday |-> workday,
         sampled_today_ha |-> sampled_today,
         spread_today_ha |-> spread_today,
         sampled_cum_ha |-> sc2,
         spread_cum_ha |-> sp2,
         backlog_ha |-> Backlog(sc2, sp2)]

\* one pass of the loop body up to rows.append: the row of day `day`
DayRecord(c, day, sc, sp) ==
    LET workday == is_workday(day, c.workdays_per_week)
        sampled_today == SampledToday(c, workday, sc)
        sc2 == sc + sampled_today
        spread_today == SpreadToday(c, workday, day, sc2, sp)
        sp2 == sp + spread_today
    IN  [day |-> day,
         date |-> CurrentDate(c, day),
         workday |-> workday,
         sampled_today_ha |-> sampled_today,
         spread_today_ha |-> spread_today,
         sampled_cum_ha |-> sc2,
         spread_cum_ha |-> sp2,
         backlog_ha |-> Backlog(sc2, sp2)]

\* mutant: the loop never stops early
FullySpread_Never(c, sp) == sp > c.total_area_ha

\* "Stop early if fully spread"
FullySpread(c, sp) == sp >= c.total_area_ha - Tolerance(c)

\* ------------------------------------------------------------ results
\* mutant: the threshold must be exceeded, not merely met
Reached_Strict(c, x) == x > c.total_area_ha - Tolerance(c)

Reached(c, x) == x >= c.total_area_ha - Tolerance(c)

SampledRows(c, rs) == { i \in 1 .. Len(rs) : Reached(c, rs[i].sampled_cum_ha) }

SpreadRows(c, rs) == { i \in 1 .. Len(rs) : Reached(c, rs[i].spread_cum_ha) }

\* mutant: the last matching row is taken instead of the first
First_Last(S) == CHOOSE i \in S : \A j \in S : i >= j

First(S) == CHOOSE i \in S : \A j \in S : i <= j

SamplingFinishDate(c, rs) ==
    IF SampledRows(c, rs) # {} THEN rs[First(SampledRows(c, rs))].date ELSE None

SpreadingFinishDate(c, rs) ==
    IF SpreadRows(c, rs) # {} THEN rs[First(SpreadRows(c, rs))].date ELSE None

FinalBacklog(rs) == IF Len(rs) > 0 THEN rs[Len(rs)].backlog_ha ELSE 0

\* ------------------------------------------------------------ state machine
Init ==
    /\ cfg \in Configs
    /\ d = 0
    /\ sampled_cum = 0
    /\ spread_cum = 0
    /\ rows = <<>>
    /\ pc = "loop"
    /\ sampling_finish_date = None
    /\ spreading_finish_date = None
    /\ final_backlog = 0
    /\ run = 1
    /\ prev_rows = <<>>

\* one iteration of `for d in range(int(max_sim_days))`
Day ==
    /\ pc = "loop"
    /\ d < cfg.max_sim_days
    /\ LET r == DayRecord(cfg, d, sampled_cum, spread_cum)
       IN  /\ sampled_cum' = r.sampled_cum_ha
           /\ spread_cum' = r.spread_cum_ha
           /\ rows' = Append(rows, r)
           /\ IF FullySpread(cfg, r.spread_cum_ha) \/ d + 1 >= cfg.max_sim_days
              THEN pc' = "results" /\ d' = d
              ELSE pc' = "loop" /\ d' = d + 1
    /\ UNCHANGED <<cfg, sampling_finish_date, spreading_finish_date, final_backlog,
                   run, prev_rows>>

\* the derivation of the finish dates and of the final backlog
Results ==
    /\ pc = "results"
    /\ sampling_finish_date' = SamplingFinishDate(cfg, rows)
    /\ spreading_finish_date' = SpreadingFinishDate(cfg, rows)
    /\ final_backlog' = FinalBacklog(rows)
    /\ pc' = "done"
    /\ UNCHANGED <<cfg, d, sampled_cum, spread_cum, rows, run, prev_rows>>

Next == Day \/ Results

Spec == Init /\ [][Next]_vars

\* mutant: the running totals survive from one execution to the next
Rerun_KeepTotals ==
    /\ pc = "done"
    /\ run < MaxRuns
    /\ run' = run + 1
    /\ prev_rows' = rows
    /\ rows' = <<>>
    /\ d' = 0
    /\ pc' = "loop"
    /\ sampling_finish_date' = None
    /\ spreading_finish_date' = None
    /\ final_backlog' = 0
    /\ UNCHANGED <<cfg, sampled_cum, spread_cum>>

\* the script is executed again with the same inputs: rows, sampled_cum and
\* spread_cum are initialised afresh
Rerun ==
    /\ pc = "done"
    /\ run < MaxRuns
    /\ run' = run + 1
    /\ prev_rows' = rows
    /\ rows' = <<>>
    /\ sampled_cum' = 0
    /\ spread_cum' = 0
    /\ d' = 0
    /\ pc' = "loop"
    /\ sampling_finish_date' = None
    /\ spreading_finish_date' = None
    /\ final_backlog' = 0
    /\ UNCHANGED cfg

NextRerun == Day \/ Results \/ Rerun

SpecRerun == Init /\ [][NextRerun]_vars

\* the whole loop as a function of the configuration: the rows of a run
RECURSIVE SimLoop(_, _, _, _, _)
SimLoop(c, day, sc, sp, rs) ==
    IF day >= c.max_sim_days THEN rs
    ELSE LET r == DayRecord(c, day, sc, sp)
         IN  IF FullySpread(c, r.spread_cum_ha)
             THEN Append(rs, r)
             ELSE SimLoop(c, day + 1, r.sampled_cum_ha, r.spread_cum_ha, Append(rs, r))

Simulate(c) == SimLoop(c, 0, 0, 0, <<>>)

TypeOK ==
    /\ cfg \in Configs
    /\ d \in 0 .. (cfg.max_sim_days - 1)
    /\ pc \in {"loop", "results", "done"}
    /\ Len(rows) <= cfg.max_sim_days
    /\ run \in 1 .. MaxRuns

\* ------------------------------------------------------------ properties
RowIdx == 1 .. Len(rows)

Finished == pc = "done"

ValidConfig ==
    /\ cfg.total_area_ha >= 0
    /\ cfg.effective_sampling_ha_per_workday >= 0
    /\ cfg.spreading_ha_per_workday >= 0
    /\ cfg.workdays_per_week \in {5, 6, 7}
    /\ cfg.spreading_lag_days >= 0

\* C1: for every valid configuration, every emitted row has
\* spread_cum <= sampled_cum, and its backlog is sampled_cum - spread_cum
\* and is >= 0 (the clamp at 0 never changes the value).
C1_OrderingAndBacklog ==
    ValidConfig =>
        \A i \in RowIdx :
            /\ rows[i].spread_cum_ha <= rows[i].sampled_cum_ha
            /\ rows[i].backlog_ha = rows[i].sampled_cum_ha - rows[i].spread_cum_ha
            /\ rows[i].backlog_ha >= 0

\* a finished run in which a backlog built up behind slower spreading and in
\* which, on another day, spreading was limited by the ready backlog alone
C1_Witness ==
    /\ Finished
    /\ \E i \in RowIdx : rows[i].backlog_ha > 0 /\ rows[i].spread_cum_ha > 0
    /\ \E j \in RowIdx :
          /\ rows[j].spread_today_ha > 0
          /\ rows[j].spread_today_ha < cfg.spreading_ha_per_workday
          /\ rows[j].spread_cum_ha = rows[j].sampled_cum_ha
          /\ rows[j].spread_cum_ha < cfg.total_area_ha

\* C2: both cumulative totals never decrease from one emitted row to the next
\* and never exceed total_area.
C2_Monotone ==
    /\ \A i \in RowIdx :
          /\ rows[i].sampled_cum_ha <= cfg.total_area_ha
          /\ rows[i].spread_cum_ha <= cfg.total_area_ha
    /\ \A i \in RowIdx : i < Len(rows) =>
          /\ rows[i].sampled_cum_ha <= rows[i + 1].sampled_cum_ha
          /\ rows[i].spread_cum_ha <= rows[i + 1].spread_cum_ha

\* a finished run whose last sampling day was cut short by the remaining area
\* and in which both totals grew between two consecutive rows
C2_Witness ==
    /\ Finished
    /\ \E i \in RowIdx :
          /\ rows[i].sampled_today_ha > 0
          /\ rows[i].sampled_today_ha < cfg.effective_sampling_ha_per_workday
          /\ rows[i].sampled_cum_ha = cfg.total_area_ha
    /\ \E i \in RowIdx : i < Len(rows)
          /\ rows[i].sampled_cum_ha < rows[i + 1].sampled_cum_ha
          /\ rows[i].spread_cum_ha < rows[i + 1].spread_cum_ha

\* C3: at most max_days rows are emitted, with day indices 0, 1, 2, ... in
\* order; no row before the last one has spread_cum >= total_area - 1e-9, and
\* when the loop has ended either the last row meets that threshold or exactly
\* max_days rows were emitted.
C3_Termination ==
    /\ Len(rows) <= cfg.max_sim_days
    /\ \A i \in RowIdx : rows[i].day = i - 1
    /\ \A i \in RowIdx : i < Len(rows) =>
          rows[i].spread_cum_ha < cfg.total_area_ha - Tolerance(cfg)
    /\ pc \in {"results", "done"} =>
          /\ Len(rows) >= 1
          /\ \/ rows[Len(rows)].spread_cum_ha >= cfg.total_area_ha - Tolerance(cfg)
             \/ Len(rows) = cfg.max_sim_days

\* a run that stopped early, after several days, on a row that is within the
\* tolerance of total_area without being equal to it
C3_Witness ==
    /\ Finished
    /\ Len(rows) > 2
    /\ Len(rows) < cfg.max_sim_days
    /\ rows[Len(rows)].spread_cum_ha < cfg.total_area_ha
    /\ rows[Len(rows)].spread_cum_ha >= cfg.total_area_ha - Tolerance(cfg)

\* a run that ended at the safety cap although spreading was progressing
C3_CapReached ==
    /\ Finished
    /\ Len(rows) = cfg.max_sim_days
    /\ rows[Len(rows)].spread_cum_ha > 0
    /\ rows[Len(rows)].spread_cum_ha < cfg.total_area_ha - Tolerance(cfg)

\* C4: on every day index below lag_days, spread_today and spread_cum are 0.
C4_LagEnforced ==
    \A i \in RowIdx :
        rows[i].day < cfg.spreading_lag_days =>
            rows[i].spread_today_ha = 0 /\ rows[i].spread_cum_ha = 0

\* a workday inside the lag with sampled area waiting and a positive
\* spreading rate
C4_Witness ==
    \E i \in RowIdx :
        /\ rows[i].day < cfg.spreading_lag_days
        /\ rows[i].workday
        /\ rows[i].sampled_cum_ha > 0
        /\ rows[i].sampled_today_ha > 0
        /\ cfg.spreading_ha_per_workday > 0

\* C5: on every emitted day with d mod 7 >= workdays_per_week the row is not a
\* workday, sampled_today = spread_today = 0, and both cumulative totals equal
\* those of the previous day's row.
C5_NonWorkdayNoOp ==
    \A i \in RowIdx :
        (rows[i].day % 7) >= cfg.workdays_per_week =>
            /\ ~rows[i].workday
            /\ rows[i].sampled_today_ha = 0
            /\ rows[i].spread_today_ha = 0
            /\ i > 1
            /\ rows[i].sampled_cum_ha = rows[i - 1].sampled_cum_ha
            /\ rows[i].spread_cum_ha = rows[i - 1].spread_cum_ha

\* an off day past the lag on which area remained to sample and a backlog
\* remained to spread, with both rates positive
C5_Witness ==
    \E i \in RowIdx :
        /\ ~rows[i].workday
        /\ rows[i].day >= cfg.spreading_lag_days
        /\ rows[i].sampled_cum_ha < cfg.total_area_ha
        /\ rows[i].backlog_ha > 0
        /\ cfg.effective_sampling_ha_per_workday > 0
        /\ cfg.spreading_ha_per_workday > 0

\* ------------------------------------------------------------ scenarios
IsScenario(c, sr, pr, w, lag) ==
    /\ c.unit = "ha"
    /\ c.total_area_ha = 100
    /\ c.effective_sampling_ha_per_workday = sr
    /\ c.spreading_ha_per_workday = pr
    /\ c.workdays_per_week = w
    /\ c.spreading_lag_days = lag

\* day index of a finish date of configuration c
DayIndexOf(c, finish_date) == finish_date - c.start_date

\* C6 as stated: in scenario B sampling finishes on day 4, spreading on day
\* 19, and the backlog rises to 80 by day 4, then declines to 0 by day 19.
C6_ScenarioB_AsStated ==
    (Finished /\ IsScenario(cfg, 20, 5, 7, 0) /\ cfg.max_sim_days >= 20) =>
        /\ sampling_finish_date # None
        /\ DayIndexOf(cfg, sampling_finish_date) = 4
        /\ spreading_finish_date # None
        /\ DayIndexOf(cfg, spreading_finish_date) = 19
        /\ Len(rows) = 20
        /\ rows[5].backlog_ha = 80
        /\ \A i \in 1 .. 4 : rows[i].backlog_ha < rows[i + 1].backlog_ha
        /\ \A i \in 5 .. 19 : rows[i].backlog_ha > rows[i + 1].backlog_ha
        /\ rows[20].backlog_ha = 0

\* C6 (amended): in scenario B sampling finishes on day 4, spreading on day
\* 19, and the backlog rises to 75 by day 4 (15 more on each of days 0..4,
\* since 5 of the 20 sampled are spread the same day), then declines to 0 by
\* day 19.
C6_ScenarioB ==
    (Finished /\ IsScenario(cfg, 20, 5, 7, 0) /\ cfg.max_sim_days >= 20) =>
        /\ sampling_finish_date # None
        /\ DayIndexOf(cfg, sampling_finish_date) = 4
        /\ spreading_finish_date # None
        /\ DayIndexOf(cfg, spreading_finish_date) = 19
        /\ Len(rows) = 20
        /\ rows[5].backlog_ha = 75
        /\ \A i \in 1 .. 5 : rows[i].backlog_ha = 15 * i
        /\ \A i \in 5 .. 19 : rows[i].backlog_ha > rows[i + 1].backlog_ha
        /\ rows[20].backlog_ha = 0

\* scenario B has run to its end
C6_Witness ==
    /\ Finished
    /\ IsScenario(cfg, 20, 5, 7, 0)
    /\ Len(rows) = 20
    /\ rows[20].spread_cum_ha = 100

\* scenario C without its lag
NoLag(c) == [c EXCEPT !.spreading_lag_days = 0]

\* C7: in scenario C (scenario B with lag_days = 3) spread_today is 0 on days
\* 0, 1 and 2, spreading finishes exactly 3 day indices later than in the run
\* with lag_days = 0, and sampling finishes on the same day index in both.
C7_ScenarioC ==
    (Finished /\ IsScenario(cfg, 20, 5, 7, 3)) =>
        LET base == Simulate(NoLag(cfg))
        IN  /\ Len(rows) >= 3
            /\ \A i \in 1 .. 3 : rows[i].spread_today_ha = 0
            /\ spreading_finish_date # None
            /\ SpreadingFinishDate(NoLag(cfg), base) # None
            /\ DayIndexOf(cfg, spreading_finish_date) =
                  DayIndexOf(cfg, SpreadingFinishDate(NoLag(cfg), base)) + 3
            /\ sampling_finish_date # None
            /\ sampling_finish_date = SamplingFinishDate(NoLag(cfg), base)

\* scenario C has run to its end: spreading started on day 3, ended on day 22
C7_Witness ==
    /\ Finished
    /\ IsScenario(cfg, 20, 5, 7, 3)
    /\ rows[4].spread_today_ha = 5
    /\ spreading_finish_date = cfg.start_date + 22
    /\ rows[3].backlog_ha = 60

\* scenario D with a 7-day workweek
AllWorkdays(c) == [c EXCEPT !.workdays_per_week = 7]

\* the rows of the weekend days (d mod 7 in {5,6}) before day index `day`
WeekendRowsBefore(day) ==
    { i \in RowIdx : rows[i].day < day /\ (rows[i].day % 7) \in {5, 6} }

\* C8: in scenario D (scenario A with workdays_per_week = 5) nothing is
\* sampled or spread on a day index with d mod 7 in {5,6}, and the finish day
\* index is that of the 7-workday run plus the number of such days before it.
C8_ScenarioD ==
    (Finished /\ IsScenario(cfg, 10, 10, 5, 0)) =>
        LET base == Simulate(AllWorkdays(cfg))
            baseFinish == SpreadingFinishDate(AllWorkdays(cfg), base)
        IN  /\ \A i \in RowIdx : (rows[i].day % 7) \in {5, 6} =>
                  rows[i].sampled_today_ha = 0 /\ rows[i].spread_today_ha = 0
            /\ spreading_finish_date # None
            /\ baseFinish # None
            /\ DayIndexOf(cfg, spreading_finish_date) =
                  DayIndexOf(cfg, baseFinish)
                  + Cardinality(WeekendRowsBefore(DayIndexOf(cfg, spreading_finish_date)))
            /\ sampling_finish_date = spreading_finish_date
            /\ SamplingFinishDate(AllWorkdays(cfg), base) = baseFinish

\* scenario D has run to its end, across one weekend
C8_Witness ==
    /\ Finished
    /\ IsScenario(cfg, 10, 10, 5, 0)
    /\ Cardinality(WeekendRowsBefore(Len(rows))) = 2
    /\ rows[Len(rows)].spread_cum_ha = 100
    /\ rows[6].sampled_cum_ha = 50

\* C9: in scenario A both sampling and spreading finish on day index 9,
\* exactly the 10 rows of days 0..9 are emitted, and every row's backlog is 0.
C9_ScenarioA ==
    (Finished /\ IsScenario(cfg, 10, 10, 7, 0)) =>
        /\ Len(rows) = 10
        /\ \A i \in RowIdx : rows[i].day = i - 1 /\ rows[i].backlog_ha = 0
        /\ sampling_finish_date # None
        /\ DayIndexOf(cfg, sampling_finish_date) = 9
        /\ spreading_finish_date # None
        /\ DayIndexOf(cfg, spreading_finish_date) = 9

\* scenario A has run to its end
C9_Witness ==
    /\ Finished
    /\ IsScenario(cfg, 10, 10, 7, 0)
    /\ rows[Len(rows)].sampled_cum_ha = 100
    /\ rows[Len(rows)].spread_cum_ha = 100

\* spread_cum before the day of row i
SpreadBefore(i) == IF i = 1 THEN 0 ELSE rows[i - 1].spread_cum_ha

\* C10: on every workday d >= lag_days, spread_today is the minimum of the
\* spreading rate, the ready backlog (sampled_cum after the day's sampling
\* minus spread_cum before the day) and total_area minus spread_cum before the
\* day, when that ready backlog is > 0 and spread_cum < total_area; else 0.
C10_SpreadFormula ==
    \A i \in RowIdx :
        ((rows[i].day % 7) < cfg.workdays_per_week
            /\ rows[i].day >= cfg.spreading_lag_days) =>
            LET ready == rows[i].sampled_cum_ha - SpreadBefore(i)
                left == cfg.total_area_ha - SpreadBefore(i)
                rate == cfg.spreading_ha_per_workday
            IN  rows[i].spread_today_ha =
                    IF ready > 0 /\ SpreadBefore(i) < cfg.total_area_ha
                    THEN (IF rate <= ready /\ rate <= left THEN rate
                          ELSE IF ready <= left THEN ready ELSE left)
                    ELSE 0

\* with no lag, area was spread on day 0, and on a later day more was spread
\* than the backlog left by the previous day
C10_Witness ==
    /\ cfg.spreading_lag_days = 0
    /\ Len(rows) >= 2
    /\ rows[1].spread_today_ha > 0
    /\ \E i \in RowIdx : i > 1
          /\ rows[i].spread_today_ha > rows[i - 1].backlog_ha
          /\ rows[i - 1].backlog_ha > 0

\* ------------------------------------------------------------ zero rates
\* sampled_cum before the day of row i
SampledBefore(i) == IF i = 1 THEN 0 ELSE rows[i - 1].sampled_cum_ha

LoopEnded == pc \in {"results", "done"}

\* what C11 says of a run, for the configurations selected by `covered`
ZeroRateBehaviour(covered) ==
    covered =>
        /\ cfg.effective_sampling_ha_per_workday = 0 =>
              \A i \in RowIdx :
                  rows[i].sampled_today_ha = 0 /\ rows[i].sampled_cum_ha = 0
        /\ cfg.spreading_ha_per_workday = 0 =>
              \A i \in RowIdx :
                  rows[i].spread_today_ha = 0 /\ rows[i].spread_cum_ha = 0
        /\ (cfg.effective_sampling_ha_per_workday = 0
              \/ cfg.spreading_ha_per_workday = 0) =>
              /\ LoopEnded => Len(rows) = cfg.max_sim_days
              /\ Finished => spreading_finish_date = None
        /\ (cfg.spreading_ha_per_workday = 0
              /\ cfg.effective_sampling_ha_per_workday > 0) =>
              \A i \in RowIdx : rows[i].workday =>
                  rows[i].sampled_today_ha =
                      (IF cfg.effective_sampling_ha_per_workday
                            <= cfg.total_area_ha - SampledBefore(i)
                       THEN cfg.effective_sampling_ha_per_workday
                       ELSE cfg.total_area_ha - SampledBefore(i))

\* C11 as stated: with total_area > 0, a process whose rate is 0 has
\* today-amount and cumulative total 0 in every row, the spreading finish is
\* absent and exactly max_days rows are emitted; with only the spreading rate
\* 0, sampling advances by min(rate, remaining) on every workday.
C11_ZeroRate_AsStated == ZeroRateBehaviour(cfg.total_area_ha > 0)

\* C11 (amended): the same for total_area > 1e-9, that is for a total_area
\* that exceeds the completion tolerance.
C11_ZeroRate == ZeroRateBehaviour(cfg.total_area_ha - Tolerance(cfg) > 0)

\* a finished run with spreading rate 0 in which sampling reached total_area,
\* its last sampling day cut short by the remaining area
C11_Witness ==
    /\ Finished
    /\ cfg.total_area_ha - Tolerance(cfg) > 0
    /\ cfg.spreading_ha_per_workday = 0
    /\ cfg.effective_sampling_ha_per_workday > 0
    /\ rows[Len(rows)].sampled_cum_ha = cfg.total_area_ha
    /\ \E i \in RowIdx :
          /\ rows[i].sampled_today_ha > 0
          /\ rows[i].sampled_today_ha < cfg.effective_sampling_ha_per_workday

\* a finished run with sampling rate 0 and a positive spreading rate
C11_SamplingIdle ==
    /\ Finished
    /\ cfg.total_area_ha - Tolerance(cfg) > 0
    /\ cfg.effective_sampling_ha_per_workday = 0
    /\ cfg.spreading_ha_per_workday > 0
    /\ Len(rows) = cfg.max_sim_days

\* ------------------------------------------------------------ finish dates
SampledMeets(i) == rows[i].sampled_cum_ha >= cfg.total_area_ha - Tolerance(cfg)

SpreadMeets(i) == rows[i].spread_cum_ha >= cfg.total_area_ha - Tolerance(cfg)

\* C12: the sampling finish is the first emitted day whose sampled_cum is
\* >= total_area - 1e-9 and the spreading finish the first emitted day whose
\* spread_cum is >= total_area - 1e-9; each is absent exactly when no emitted
\* row meets its threshold.
C12_FinishDates ==
    Finished =>
        /\ (sampling_finish_date = None) <=> ~(\E i \in RowIdx : SampledMeets(i))
        /\ sampling_finish_date # None =>
              \E i \in RowIdx :
                  /\ rows[i].date = sampling_finish_date
                  /\ rows[i].day = sampling_finish_date - cfg.start_date
                  /\ SampledMeets(i)
                  /\ \A j \in 1 .. (i - 1) : ~SampledMeets(j)
        /\ (spreading_finish_date = None) <=> ~(\E i \in RowIdx : SpreadMeets(i))
        /\ spreading_finish_date # None =>
              \E i \in RowIdx :
                  /\ rows[i].date = spreading_finish_date
                  /\ rows[i].day = spreading_finish_date - cfg.start_date
                  /\ SpreadMeets(i)
                  /\ \A j \in 1 .. (i - 1) : ~SpreadMeets(j)

\* a run that ended at max_days with sampling finished on an earlier day and
\* spreading under way but not finished
C12_Witness ==
    /\ Finished
    /\ Len(rows) = cfg.max_sim_days
    /\ sampling_finish_date # None
    /\ sampling_finish_date > cfg.start_date
    /\ sampling_finish_date < rows[Len(rows)].date
    /\ spreading_finish_date = None
    /\ rows[Len(rows)].spread_cum_ha > 0

\* a run in which both finishes are present, on different days
C12_BothPresent ==
    /\ Finished
    /\ sampling_finish_date # None
    /\ spreading_finish_date # None
    /\ sampling_finish_date < spreading_finish_date

\* ------------------------------------------------------------ repeated runs
\* C13: a second execution with the same configuration emits the same rows
\* as the first: while it runs its rows are the first rows of the previous
\* execution, and at its end the two sequences are equal, field by field, and
\* so are the results derived from them.
C13_Deterministic ==
    run >= 2 =>
        /\ Len(rows) <= Len(prev_rows)
        /\ \A i \in RowIdx : rows[i] = prev_rows[i]
        /\ LoopEnded => Len(rows) = Len(prev_rows)
        /\ Finished =>
              /\ sampling_finish_date = SamplingFinishDate(cfg, prev_rows)
              /\ spreading_finish_date = SpreadingFinishDate(cfg, prev_rows)

\* a second execution has ended after several days of sampling and spreading
C13_Witness ==
    /\ run = 2
    /\ Finished
    /\ Len(rows) > 3
    /\ rows[Len(rows)].spread_cum_ha > 0
    /\ rows[Len(rows)].backlog_ha > 0

\* ------------------------------------------------------------ sampling step
\* the configuration with spreading switched off and no lag
SamplingOnly(c) ==
    [c EXCEPT !.spreading_ha_per_workday = 0, !.spreading_lag_days = 0]

\* C14: on a workday with sampled_cum < total_area before the day,
\* sampled_today is min(sampling rate, total_area - sampled_cum before the
\* day); on every other day it is 0; sampled_cum never exceeds total_area, and
\* the sampled columns are those of the run with the same configuration but
\* no spreading and no lag.
C14_SamplingStep ==
    /\ \A i \in RowIdx :
          /\ rows[i].sampled_today_ha =
                (IF (rows[i].day % 7) < cfg.workdays_per_week
                      /\ SampledBefore(i) < cfg.total_area_ha
                 THEN (IF cfg.effective_sampling_ha_per_workday
                            <= cfg.total_area_ha - SampledBefore(i)
                       THEN cfg.effective_sampling_ha_per_workday
                       ELSE cfg.total_area_ha - SampledBefore(i))
                 ELSE 0)
          /\ rows[i].sampled_cum_ha <= cfg.total_area_ha
    /\ Finished =>
          LET ref == Simulate(SamplingOnly(cfg))
          IN  /\ Len(rows) <= Len(ref)
              /\ \A i \in RowIdx :
                    /\ rows[i].sampled_today_ha = ref[i].sampled_today_ha
                    /\ rows[i].sampled_cum_ha = ref[i].sampled_cum_ha

\* a finished run with a lag and a positive spreading rate in which sampling
\* advanced during the lag and was cut short by the remaining area on its
\* last sampling day, after which a workday followed with nothing sampled
C14_Witness ==
    /\ Finished
    /\ cfg.spreading_lag_days > 0
    /\ cfg.spreading_ha_per_workday > 0
    /\ rows[1].sampled_today_ha > 0
    /\ rows[1].spread_today_ha = 0
    /\ \E i \in RowIdx :
          rows[i].workday /\ rows[i].sampled_today_ha = 0
    /\ \E i \in RowIdx :
          /\ rows[i].sampled_today_ha > 0
          /\ rows[i].sampled_today_ha < cfg.effective_sampling_ha_per_workday
          /\ rows[i].sampled_cum_ha = cfg.total_area_ha

\* an off day on which area was left to sample
C14_OffDay ==
    \E i \in RowIdx :
        /\ ~rows[i].workday
        /\ rows[i].sampled_cum_ha < cfg.total_area_ha
        /\ rows[i].sampled_cum_ha > 0

\* ------------------------------------------------------------ zero area
\* C15: with total_area = 0 the run emits exactly one row, of day index 0, in
\* which sampled_today, spread_today, both cumulative totals and the backlog
\* are 0 (none is negative), and both the sampling finish and the spreading
\* finish are day index 0.
C15_ZeroArea ==
    cfg.total_area_ha = 0 =>
        /\ Len(rows) <= 1
        /\ \A i \in RowIdx :
              /\ rows[i].day = 0
              /\ rows[i].sampled_today_ha = 0
              /\ rows[i].spread_today_ha = 0
              /\ rows[i].sampled_cum_ha = 0
              /\ rows[i].spread_cum_ha = 0
              /\ rows[i].backlog_ha = 0
        /\ LoopEnded => Len(rows) = 1
        /\ Finished =>
              /\ sampling_finish_date # None
              /\ sampling_finish_date - cfg.start_date = 0
              /\ spreading_finish_date # None
              /\ spreading_finish_date - cfg.start_date = 0
              /\ final_backlog = 0

\* a finished run over a zero area with a positive spreading rate and no lag
C15_Witness ==
    /\ Finished
    /\ cfg.total_area_ha = 0
    /\ cfg.spreading_ha_per_workday > 0
    /\ cfg.spreading_lag_days = 0
    /\ Len(rows) = 1

\* ------------------------------------------------------------ no stall
CeilDiv(a, b) == (a + b - 1) \div b

\* workdays on which spreading must act before it is complete: each such day
\* adds at least the smaller of the two rates
WorkdaysNeeded(c) ==
    CeilDiv(c.total_area_ha,
            IF c.effective_sampling_ha_per_workday <= c.spreading_ha_per_workday
            THEN c.effective_sampling_ha_per_workday
            ELSE c.spreading_ha_per_workday)

\* a horizon that holds the lag, the workdays needed and the off days between
\* them
EnoughDays(c) ==
    c.spreading_lag_days + WorkdaysNeeded(c)
        + (7 - c.workdays_per_week) * CeilDiv(WorkdaysNeeded(c), c.workdays_per_week)

BothRatesPositive ==
    /\ cfg.total_area_ha > 0
    /\ cfg.effective_sampling_ha_per_workday > 0
    /\ cfg.spreading_ha_per_workday > 0

\* C16: with total_area > 0 and both rates > 0, spread_today > 0 on every
\* workday d >= lag_days on which spread_cum < total_area before the day; and
\* when max_days is large enough (the lag, plus the workdays needed at the
\* smaller rate, plus the off days between them) the run ends by early
\* completion with the spreading finish present.
C16_NoStall ==
    BothRatesPositive =>
        /\ \A i \in RowIdx :
              ((rows[i].day % 7) < cfg.workdays_per_week
                  /\ rows[i].day >= cfg.spreading_lag_days
                  /\ SpreadBefore(i) < cfg.total_area_ha) =>
                  rows[i].spread_today_ha > 0
        /\ cfg.max_sim_days >= EnoughDays(cfg) =>
              /\ Len(rows) <= EnoughDays(cfg)
              /\ LoopEnded => SpreadMeets(Len(rows))
              /\ Finished =>
                    /\ spreading_finish_date # None
                    /\ spreading_finish_date = rows[Len(rows)].date

\* a run with a lag that completed across a weekend before the safety cap
C16_Witness ==
    /\ Finished
    /\ BothRatesPositive
    /\ cfg.max_sim_days >= EnoughDays(cfg)
    /\ cfg.spreading_lag_days > 0
    /\ cfg.workdays_per_week < 7
    /\ Len(rows) >= 8
    /\ Len(rows) < cfg.max_sim_days
    /\ spreading_finish_date # None

\* a run with both rates positive whose horizon was too short to complete
C16_TooShort ==
    /\ Finished
    /\ BothRatesPositive
    /\ cfg.max_sim_days < EnoughDays(cfg)
    /\ spreading_finish_date = None

\* a run that completed on the very last day the horizon bound allows
C16_BoundTight ==
    /\ Finished
    /\ BothRatesPositive
    /\ cfg.workdays_per_week < 7
    /\ Len(rows) = EnoughDays(cfg)
    /\ spreading_finish_date # None

\* ------------------------------------------------------------ completion
\* C17: whenever the spreading finish is present it is the day of the last
\* emitted row, the sampling finish is present too and is not later, and the
\* final backlog is 0 within the 1e-9 tolerance.
C17_SpreadingFinishLast ==
    (Finished /\ spreading_finish_date # None) =>
        /\ spreading_finish_date = rows[Len(rows)].date
        /\ rows[Len(rows)].day = spreading_finish_date - cfg.start_date
        /\ sampling_finish_date # None
        /\ sampling_finish_date <= spreading_finish_date
        /\ final_backlog = rows[Len(rows)].backlog_ha
        /\ final_backlog >= 0
        /\ final_backlog <= Tolerance(cfg)

\* a finished run in which sampling finished days before spreading did
C17_Witness ==
    /\ Finished
    /\ spreading_finish_date # None
    /\ sampling_finish_date # None
    /\ sampling_finish_date + 2 <= spreading_finish_date
    /\ Len(rows) > 3

\* a run that stopped within the tolerance with a backlog left over
C17_WithinTolerance ==
    /\ Finished
    /\ spreading_finish_date # None
    /\ final_backlog > 0

\* ------------------------------------------------------------ conservation
RECURSIVE SumSampledToday(_)
SumSampledToday(i) ==
    IF i = 0 THEN 0 ELSE SumSampledToday(i - 1) + rows[i].sampled_today_ha

RECURSIVE SumSpreadToday(_)
SumSpreadToday(i) ==
    IF i = 0 THEN 0 ELSE SumSpreadToday(i - 1) + rows[i].spread_today_ha

\* C18: in every emitted row d, sampled_cum is the sum of sampled_today over
\* rows 0..d and spread_cum the sum of spread_today over rows 0..d, and every
\* sampled_today and spread_today is >= 0.  The sum is taken in full for the
\* newest row of every state (each row is the newest row of the state that
\* emitted it) and row by row, as previous total plus today's amount, for
\* all rows.
C18_Conservation ==
    /\ \A i \in RowIdx :
          /\ rows[i].sampled_today_ha >= 0
          /\ rows[i].spread_today_ha >= 0
          /\ rows[i].sampled_cum_ha = SampledBefore(i) + rows[i].sampled_today_ha
          /\ rows[i].spread_cum_ha = SpreadBefore(i) + rows[i].spread_today_ha
    /\ Len(rows) > 0 =>
          /\ rows[Len(rows)].sampled_cum_ha = SumSampledToday(Len(rows))
          /\ rows[Len(rows)].spread_cum_ha = SumSpreadToday(Len(rows))

\* a run of several days in which both processes advanced on more than one
\* day
C18_Witness ==
    /\ Len(rows) >= 3
    /\ \E i, j \in RowIdx :
          /\ i < j
          /\ rows[i].sampled_today_ha > 0
          /\ rows[j].sampled_today_ha > 0
          /\ rows[i].spread_today_ha > 0
          /\ rows[j].spread_today_ha > 0
          /\ rows[j].spread_cum_ha > rows[j].spread_today_ha

====
